---- MODULE Spec2Model ----
(***************************************************************************)
(* A model of the Rust binding layer of the Unicorn emulator               *)
(* (bindings/rust/src/lib.rs): the shared, reference-counted emulator      *)
(* handle, the hook registry, and the MMIO region tracker with its         *)
(* interval-splitting algorithm.  The native engine is the collaborator    *)
(* behind the uc_* calls; only the part of its contract the binding        *)
(* consumes is modelled.                                                   *)
(*                                                                         *)
(* Addresses and sizes are u64/usize in the source.  The model scales the  *)
(* 64-bit address space down to AddrSpace = PageSize * NumPages units and  *)
(* keeps the width: every u64 sum is taken modulo AddrSpace (a release     *)
(* build wraps) or aborts the program (a build with overflow checks).      *)
(***************************************************************************)
EXTENDS Integers, Sequences, FiniteSets, TLC

\* ---------------------------------------------------------------- bounds
\* The engine's page, in address units (4 KiB in the engine, scaled down).
PageSize == 2
\* Pages of the (scaled) address space; the last page ends at 2^64.
NumPages == 4
\* Handles the caller holds at any one time.
MaxHandles == 2
\* Successful add_*_hook calls in one run.
MaxHooks == 2
\* Successful mmio_map calls in one run.
MaxMaps == 2
\* mem_unmap calls in one run.
MaxUnmaps == 2

\* UnicornInner allocations there is room for (the program makes one).
MaxInners == 2
\* Values written to crash_pc and to the user data are 0 .. MaxVal.
MaxVal == 2

\* Values of a byte are 0 .. ByteBase - 1 (256 in the source, scaled down);
\* a u32 is four such bytes and a u64 eight.
ByteBase == 4
MaxContexts == 3

\* The scaled 2^64: u64 and usize values are 0 .. AddrSpace - 1.
AddrSpace == PageSize * NumPages
U64 == 0 .. (AddrSpace - 1)
PageIdx == 0 .. (NumPages - 1)
Tokens == 1 .. MaxHooks
MapIds == 1 .. MaxMaps
HandleIds == 1 .. MaxHandles
Bytes == 0 .. (ByteBase - 1)
\* 2^32 and 2^64 in bytes of ByteBase values.
Word32 == ByteBase * ByteBase * ByteBase * ByteBase
Word64 == Word32 * Word32
Inners == 1 .. MaxInners
Vals == 0 .. MaxVal
ContextIds == 1 .. MaxContexts

VARIABLES
    ffi,             \* UnicornInner.ffi: the handle was adopted (try_from)
    handle,          \* UnicornInner.handle: "valid" or "null"
    overflow_checks, \* the build panics on integer overflow (else it wraps)
    rc,              \* strong count of the Rc around UnicornInner
    userHandles,     \* Unicorn handles the caller holds
    hooks,           \* UnicornInner.hooks: Seq of [hook_ptr, user_data]
    mmio_callbacks,  \* UnicornInner.mmio_callbacks: Seq of scopes
    next_hook,       \* the next token the engine issues
    next_map,        \* the next identity of an MMIO mapping's user data
    eng_open,        \* the native engine resource has not been closed
    eng_hooks,       \* tokens registered in the native engine
    eng_mem,         \* engine page -> MMIO mapping backing it (0: unmapped)
    closeCalls,      \* number of uc_close calls made by this layer
    pc,              \* "idle" | "running" (in emu_start) | "callback" | "aborted"
    cb,              \* the callback the engine is executing
    last,            \* the last completed call and what it returned
    n_unmap,         \* mem_unmap calls made so far
    removedOk,       \* history: tokens for which remove_hook returned Ok
    native_failed,   \* history: some native map/unmap call reported an error
    uc_inner,        \* caller's Unicorn handle -> the UnicornInner its Rc points at (0: no handle)
    box_inner,       \* the UnicornInner the handle in a hook's box points at (0: no box)
    heap,            \* UnicornInner allocation -> its crash_pc, data, hooks, scopes
    share_pc,        \* "idle" | "running": emu_start in progress, the callback acts
    share_last,      \* the last write: through which handle, which field, what value
    arch,            \* UnicornInner.arch
    mode,            \* UnicornInner.mode: "None" or Some(mode)
    regs,            \* the engine's registers: register -> value
    stack,           \* emulated memory: the bytes from the initial stack pointer (base) up
    stack_readable,  \* uc_mem_read of those bytes succeeds
    abi_last,        \* the last ABI helper called, its argument and what it returned
    contexts,        \* native context blob -> how it was made, uc_context_free calls on it
    context_objs,    \* the Context objects alive, each by the blob it points at
    next_context,    \* the next blob uc_context_alloc hands out
    ctx_last         \* the last context call and what it returned

\* The handles and the allocations they point at.
shareVars == << uc_inner, box_inner, heap, share_pc, share_last >>

\* The architecture, and the registers and memory the ABI helpers work on.
abiVars == << arch, mode, regs, stack, stack_readable, abi_last >>

\* The native contexts and the Context objects that own them.
ctxVars == << contexts, context_objs, next_context, ctx_last >>

otherVars == << shareVars, abiVars, ctxVars >>

vars == << ffi, handle, overflow_checks, rc, userHandles, hooks, mmio_callbacks,
           next_hook, next_map, eng_open, eng_hooks, eng_mem, closeCalls, pc,
           cb, last, n_unmap, removedOk, native_failed, otherVars >>

\* Everything but the handles and their allocations.
instanceVars == << ffi, handle, overflow_checks, rc, userHandles, hooks, mmio_callbacks,
                   next_hook, next_map, eng_open, eng_hooks, eng_mem, closeCalls, pc,
                   cb, last, n_unmap, removedOk, native_failed >>

NoCallback == [kind |-> "none", id |-> 0]

\* ------------------------------------------------------- u64 arithmetic
\* a + b on u64 in a build without overflow checks.
WrapAdd(a, b) == (a + b) % AddrSpace

\* a + b does not fit in u64.
Overflows(a, b) == a + b >= AddrSpace

\* ------------------------------------------------- MmioCallbackScope
has_regions(scope) == scope.regions # << >>

\* A split whose second piece begins at `end` itself.
UnmapRegionSecondAtEnd(b, s, begin, end) ==
    LET e == WrapAdd(b, s) IN
    IF begin > b
    THEN IF begin >= e THEN << <<b, s>> >>
         ELSE IF end >= e THEN << <<b, begin - b>> >>
         ELSE << <<b, begin - b>>, <<end, e - end>> >>
    ELSE IF end > b
         THEN IF end >= e THEN << >>
              ELSE << <<end, e - end>> >>
         ELSE << <<b, s>> >>

\* The closure of MmioCallbackScope::unmap: what one sub-interval (b, s)
\* becomes under the window that begins at `begin` and ends at `end`.
UnmapRegion(b, s, begin, end) ==
    LET e == WrapAdd(b, s) IN
    IF begin > b
    THEN IF begin >= e
         THEN << <<b, s>> >>
         ELSE IF end >= e
              THEN << <<b, begin - b>> >>
              ELSE LET second_b == end + 1 IN
                   << <<b, begin - b>>, <<second_b, e - second_b>> >>
    ELSE IF end > b
         THEN IF end >= e
              THEN << >>
              ELSE << <<end, e - end>> >>
         ELSE << <<b, s>> >>

RECURSIVE FlatMapRegions(_, _, _)
FlatMapRegions(regions, begin, end) ==
    IF regions = << >>
    THEN << >>
    ELSE UnmapRegion(Head(regions)[1], Head(regions)[2], begin, end)
             \o FlatMapRegions(Tail(regions), begin, end)

\* MmioCallbackScope::unmap in a build that wraps on overflow.
ScopeUnmap(scope, begin, size) ==
    [scope EXCEPT !.regions = FlatMapRegions(scope.regions, begin, WrapAdd(begin, size))]

\* MmioCallbackScope::unmap panics in a build with overflow checks: at
\* `begin + size`, or at `b + s` of one of its sub-intervals.
ScopeUnmapPanics(scope, begin, size) ==
    /\ overflow_checks
    /\ \/ Overflows(begin, size)
       \/ \E i \in 1 .. Len(scope.regions) :
              Overflows(scope.regions[i][1], scope.regions[i][2])

\* Boxed callbacks a scope owns; each embeds a clone of the handle.
ScopeBoxes(scope) ==
    (IF scope.read_callback THEN 1 ELSE 0) + (IF scope.write_callback THEN 1 ELSE 0)

RECURSIVE SumBoxes(_)
SumBoxes(scopes) ==
    IF scopes = << >> THEN 0 ELSE ScopeBoxes(Head(scopes)) + SumBoxes(Tail(scopes))

\* ------------------------------------------------------ native engine
Aligned(x) == x % PageSize = 0

\* Pages the range [address, address + size) touches.
PagesOf(address, size) ==
    { p \in PageIdx : address <= p * PageSize /\ p * PageSize < address + size }

\* uc_mmio_map: address and size page-aligned, a non-empty range that does
\* not wrap, and no page of it mapped already.
uc_mmio_map(address, size) ==
    IF size = 0 \/ ~Aligned(address) \/ ~Aligned(size) \/ address + size > AddrSpace
    THEN "ARG"
    ELSE IF \E p \in PagesOf(address, size) : eng_mem[p] # 0
         THEN "MAP"
         ELSE "OK"

\* uc_mem_unmap: an empty range is accepted and changes nothing; address and
\* size page-aligned; every page of the range mapped.
uc_mem_unmap(address, size) ==
    IF size = 0 THEN "OK"
    ELSE IF ~Aligned(address) \/ ~Aligned(size) THEN "ARG"
    ELSE IF address + size > AddrSpace \/ \E p \in PagesOf(address, size) : eng_mem[p] = 0
         THEN "NOMEM"
         ELSE "OK"

\* ------------------------------------------------------------ handle
\* Drop for UnicornInner: whether uc_close is called.
drop_closes_ignoring_ffi == handle # "null"

drop_closes == ~ffi /\ handle # "null"

\* A Rust call on the instance can be made: by the caller through a handle
\* it holds while no emu_start is in progress, or by the running callback
\* through the handle it was given.
CanCall ==
    \/ pc = "idle" /\ userHandles > 0
    \/ pc = "callback"

\* ------------------------------------------------ architectures, registers
\* Arch, without MAX, which no instance has.
Archs == {"X86", "ARM", "ARM64", "MIPS", "SPARC", "M68K", "PPC", "RISCV", "S390X", "TRICORE"}

\* Hardware modes an instance is opened with: the three of X86, and one
\* standing for the modes of the other architectures.
ModesOf(a) == IF a = "X86" THEN {"MODE_16", "MODE_32", "MODE_64"} ELSE {"MODE_LITTLE_ENDIAN"}

\* A register identifier: the architecture's enumeration and the name in it.
Reg(a, name) == << a, name >>

\* The registers whose values the helpers read or write.
ValueRegOrder ==
    << Reg("X86", "EIP"), Reg("X86", "RIP"), Reg("X86", "ESP"), Reg("X86", "RSP"),
       Reg("X86", "RDI"), Reg("X86", "RSI"), Reg("X86", "RDX"),
       Reg("ARM", "PC"), Reg("ARM", "R0"), Reg("ARM", "R1"), Reg("ARM", "R2"),
       Reg("ARM64", "PC"), Reg("ARM64", "X0"), Reg("ARM64", "X1"), Reg("ARM64", "X2"),
       Reg("MIPS", "PC"), Reg("MIPS", "A0"), Reg("MIPS", "A1"), Reg("MIPS", "A2"),
       Reg("SPARC", "PC"), Reg("SPARC", "O0"), Reg("SPARC", "O1"), Reg("SPARC", "O2"),
       Reg("M68K", "PC"),
       Reg("PPC", "PC"), Reg("PPC", "R3"), Reg("PPC", "R4"), Reg("PPC", "R5"),
       Reg("RISCV", "PC"), Reg("RISCV", "A0"), Reg("RISCV", "A1"), Reg("RISCV", "A2"),
       Reg("RISCV", "RA"),
       Reg("S390X", "PC"), Reg("TRICORE", "PC") >>

ValueRegs == { ValueRegOrder[i] : i \in 1 .. Len(ValueRegOrder) }

\* The registers of one architecture among them.
ValueRegsOf(a) == { r \in ValueRegs : r[1] = a }

\* A register file of the architecture a in which every register holds a
\* value of its own and the stack pointers hold sp.
RegFile(a, sp) ==
    [r \in ValueRegsOf(a) |->
        IF r \in {Reg("X86", "ESP"), Reg("X86", "RSP")}
        THEN sp
        ELSE 10 + (CHOOSE i \in 1 .. Len(ValueRegOrder) : ValueRegOrder[i] = r)]

\* Stack pointers: low, the last word below 2^32, the last word below 2^64.
StackPointers == {8, Word32 - 4, Word64 - 8}

\* Sixteen bytes of stack, from the stack pointer up.
StackSamples ==
    { << 1, 2, 3, 0, 2, 1, 0, 3, 3, 3, 0, 0, 0, 1, 2, 3 >>,
      << 0, 0, 0, 1, 0, 0, 0, 0, 1, 0, 2, 0, 0, 3, 0, 0 >> }

\* No register: the register field of a call that resolves none.
NoReg == Reg("", "")

NoCall == [op |-> "new", arg |-> 0, res |-> "OK", value |-> 0, reg |-> NoReg]

\* Everything of the instance but its architecture, registers and memory.
InitInstance ==
    /\ ffi \in BOOLEAN
    /\ handle = "valid"
    /\ overflow_checks \in BOOLEAN
    /\ rc = 1
    /\ userHandles = 1
    /\ hooks = << >>
    /\ mmio_callbacks = << >>
    /\ next_hook = 1
    /\ next_map = 1
    /\ eng_open = TRUE
    /\ eng_hooks = {}
    /\ eng_mem = [p \in PageIdx |-> 0]
    /\ closeCalls = 0
    /\ pc = "idle"
    /\ cb = NoCallback
    /\ last = [op |-> "new", err |-> "OK"]
    /\ n_unmap = 0
    /\ removedOk = {}
    /\ native_failed = FALSE
    /\ uc_inner = [h \in HandleIds |-> IF h = 1 THEN 1 ELSE 0]
    /\ box_inner = 0
    /\ heap = [p \in Inners |-> [crash_pc |-> 0, data |-> 0, hooks |-> 0, scopes |-> 0]]
    /\ share_pc = "idle"
    /\ share_last = [via |-> 1, field |-> "crash_pc", value |-> 0]
    /\ contexts = [c \in ContextIds |-> [made |-> "no", frees |-> 0]]
    /\ context_objs = {}
    /\ next_context = 1
    /\ ctx_last = [op |-> "new", err |-> "OK"]

\* new(arch, mode) keeps Some(mode); try_from(handle) keeps no mode.
ModeKept(m) == IF ffi THEN "None" ELSE m

\* One architecture, for the operations that read neither arch nor mode.
Init ==
    /\ InitInstance
    /\ arch = "X86"
    /\ mode = ModeKept("MODE_64")
    /\ regs = RegFile("X86", 8)
    /\ stack = [base |-> 8, bytes |-> << 1, 2, 3, 0, 2, 1, 0, 3, 3, 3, 0, 0, 0, 1, 2, 3 >>]
    /\ stack_readable = TRUE
    /\ abi_last = NoCall

\* Every architecture and mode, stack pointer and stack.
InitAbi ==
    /\ InitInstance
    /\ arch \in Archs
    /\ \E m \in ModesOf(arch) : mode = ModeKept(m)
    /\ \E sp \in StackPointers, bytes \in StackSamples :
           /\ (arch # "X86" \/ mode # "MODE_64") => sp < Word32
           /\ regs = RegFile(arch, sp)
           /\ stack = [base |-> sp, bytes |-> bytes]
    /\ stack_readable \in BOOLEAN
    /\ abi_last = NoCall

\* #[derive(Clone)] on Unicorn: Rc::clone.
CloneHandle ==
    /\ pc = "idle"
    /\ userHandles > 0
    /\ userHandles < MaxHandles
    /\ userHandles' = userHandles + 1
    /\ rc' = rc + 1
    /\ last' = [op |-> "clone", err |-> "OK"]
    /\ UNCHANGED << otherVars, ffi, handle, overflow_checks, hooks, mmio_callbacks, next_hook,
                    next_map, eng_open, eng_hooks, eng_mem, closeCalls, pc, cb,
                    n_unmap, removedOk, native_failed >>

\* The caller drops one handle: the Rc's strong count falls by one, and when
\* it reaches zero UnicornInner is dropped (Drop for UnicornInner).
DropHandle ==
    /\ pc = "idle"
    /\ userHandles > 0
    /\ userHandles' = userHandles - 1
    /\ rc' = rc - 1
    /\ IF rc - 1 = 0
       THEN /\ closeCalls' = IF drop_closes THEN closeCalls + 1 ELSE closeCalls
            /\ eng_open' = IF drop_closes THEN FALSE ELSE eng_open
            /\ eng_hooks' = IF drop_closes THEN {} ELSE eng_hooks
            /\ eng_mem' = IF drop_closes THEN [p \in PageIdx |-> 0] ELSE eng_mem
            /\ handle' = "null"
            /\ hooks' = << >>
            /\ mmio_callbacks' = << >>
       ELSE UNCHANGED << closeCalls, eng_open, eng_hooks, eng_mem, handle, hooks,
                         mmio_callbacks >>
    /\ last' = [op |-> "drop", err |-> "OK"]
    /\ UNCHANGED << otherVars, ffi, overflow_checks, next_hook, next_map, pc, cb, n_unmap, removedOk,
                    native_failed >>

\* ------------------------------------------------------------- hooks
\* Results the native uc_hook_add and uc_hook_del may report.
HookAddResults == {"OK", "NOMEM"}
HookDelResults == {"OK", "HANDLE"}

\* What remove_hook returns for the native result err.
remove_hook_result_always_ok(err) == "OK"

remove_hook_result(err) == err

\* add_code_hook (and add_block_hook, add_intr_hook, add_insn_invalid_hook,
\* add_insn_in_hook, add_insn_out_hook, add_insn_sys_hook, which differ only
\* in the hook type passed on): box the callback with a clone of the handle,
\* register it, and on success keep (token, box).  On failure the box, and
\* the clone in it, is dropped when the call returns.
AddHook(err) ==
    /\ CanCall
    /\ err \in HookAddResults
    /\ next_hook <= MaxHooks
    /\ IF err = "OK"
       THEN /\ hooks' = Append(hooks, [hook_ptr |-> next_hook, user_data |-> next_hook])
            /\ eng_hooks' = eng_hooks \cup {next_hook}
            /\ next_hook' = next_hook + 1
            /\ rc' = rc + 1
       ELSE UNCHANGED << hooks, eng_hooks, next_hook, rc >>
    /\ last' = [op |-> "add_hook", err |-> err]
    /\ UNCHANGED << otherVars, ffi, handle, overflow_checks, userHandles, mmio_callbacks,
                    next_map, eng_open, eng_mem, closeCalls, pc, cb, n_unmap, removedOk,
                    native_failed >>

\* HookType flags: the memory-access kinds, MEM_READ_AFTER, and the others.
MEM_ALL ==
    {"MEM_READ_UNMAPPED", "MEM_WRITE_UNMAPPED", "MEM_FETCH_UNMAPPED",
     "MEM_READ_PROT", "MEM_WRITE_PROT", "MEM_FETCH_PROT",
     "MEM_READ", "MEM_WRITE", "MEM_FETCH"}

MEM_READ_AFTER == {"MEM_READ_AFTER"}

\* Hook types add_mem_hook is called with here.
HookTypeInputs ==
    { {}, {"MEM_READ"}, {"MEM_READ", "MEM_WRITE"}, MEM_ALL, MEM_READ_AFTER,
      MEM_ALL \cup MEM_READ_AFTER, {"CODE"}, {"MEM_READ", "CODE"},
      {"MEM_READ_AFTER", "INTR"}, {"INSN_INVALID"}, MEM_ALL \cup {"BLOCK"} }

\* bitflags contains: every flag of other is a flag of self.
contains(self, other) == other \subseteq self

\* A test that accepts a hook type sharing some flag with the union.
mem_hook_type_ok_some_flag(hook_type) ==
    hook_type \cap (MEM_ALL \cup MEM_READ_AFTER) # {}

\* add_mem_hook's test of its hook type.
mem_hook_type_ok(hook_type) == contains(MEM_ALL \cup MEM_READ_AFTER, hook_type)

\* add_mem_hook: a hook type outside MEM_ALL | MEM_READ_AFTER is refused
\* with ARG before anything else happens; otherwise as the other add_*_hook
\* with the hook type passed on.  `native` tells whether uc_hook_add was
\* called.
AddMemHook(hook_type, err) ==
    /\ CanCall
    /\ hook_type \in HookTypeInputs
    /\ err \in HookAddResults
    /\ IF ~mem_hook_type_ok(hook_type)
       THEN /\ last' = [op |-> "add_mem_hook", err |-> "ARG", native |-> FALSE]
            /\ UNCHANGED << hooks, eng_hooks, next_hook, rc >>
       ELSE /\ next_hook <= MaxHooks
            /\ IF err = "OK"
               THEN /\ hooks' = Append(hooks, [hook_ptr |-> next_hook, user_data |-> next_hook])
                    /\ eng_hooks' = eng_hooks \cup {next_hook}
                    /\ next_hook' = next_hook + 1
                    /\ rc' = rc + 1
               ELSE UNCHANGED << hooks, eng_hooks, next_hook, rc >>
            /\ last' = [op |-> "add_mem_hook", err |-> err, native |-> TRUE]
    /\ UNCHANGED << otherVars, ffi, handle, overflow_checks, userHandles, mmio_callbacks,
                    next_map, eng_open, eng_mem, closeCalls, pc, cb, n_unmap, removedOk,
                    native_failed >>

\* A retain that also drops the entries pushed before the token's.
retain_hooks_after(hs, hook) == SelectSeq(hs, LAMBDA h : h.hook_ptr > hook)

\* hooks.retain(|(hook_ptr, _)| hook_ptr != &hook)
retain_hooks(hs, hook) == SelectSeq(hs, LAMBDA h : h.hook_ptr # hook)

\* remove_hook: first drop every (token, box) entry with this token, then
\* call uc_hook_del and return its result.  When the native call reports an
\* error the engine keeps the registration.
RemoveHook(hook, err) ==
    /\ CanCall
    /\ hook \in Tokens
    /\ err \in HookDelResults
    /\ LET kept == retain_hooks(hooks, hook) IN
       /\ hooks' = kept
       /\ rc' = rc - (Len(hooks) - Len(kept))
    /\ eng_hooks' = IF err = "OK" THEN eng_hooks \ {hook} ELSE eng_hooks
    /\ last' = [op |-> "remove_hook", err |-> remove_hook_result(err)]
    /\ removedOk' = IF remove_hook_result(err) = "OK" /\ hook < next_hook
                    THEN removedOk \cup {hook}
                    ELSE removedOk
    /\ UNCHANGED << otherVars, ffi, handle, overflow_checks, userHandles, mmio_callbacks,
                    next_hook, next_map, eng_open, eng_mem, closeCalls, pc, cb,
                    native_failed, n_unmap >>

\* -------------------------------------------------------------- MMIO
\* A scope whose single sub-interval is one byte short.
NewScopeShort(id, address, size, rd, wr) ==
    [id |-> id, regions |-> << <<address, size - 1>> >>,
     read_callback |-> rd, write_callback |-> wr]

\* The scope mmio_map pushes: the single sub-interval (address, size) and the
\* boxes of the callbacks that were given.
NewScope(id, address, size, rd, wr) ==
    [id |-> id, regions |-> << <<address, size>> >>,
     read_callback |-> rd, write_callback |-> wr]

\* mmio_map: box the callbacks that are given (each with a clone of the
\* handle), call uc_mmio_map, and on success push one scope with the single
\* sub-interval (address, size).
MmioMap(address, size, rd, wr) ==
    /\ CanCall
    /\ address \in U64 /\ size \in U64
    /\ rd \in BOOLEAN /\ wr \in BOOLEAN
    /\ next_map <= MaxMaps
    /\ LET err == uc_mmio_map(address, size) IN
       /\ IF err = "OK"
          THEN /\ mmio_callbacks' = Append(mmio_callbacks,
                                            NewScope(next_map, address, size, rd, wr))
               /\ eng_mem' = [p \in PageIdx |->
                                 IF p \in PagesOf(address, size) THEN next_map ELSE eng_mem[p]]
               /\ next_map' = next_map + 1
               /\ rc' = rc + (IF rd THEN 1 ELSE 0) + (IF wr THEN 1 ELSE 0)
               /\ UNCHANGED native_failed
          ELSE /\ native_failed' = TRUE
               /\ UNCHANGED << mmio_callbacks, eng_mem, next_map, rc >>
       /\ last' = [op |-> "mmio_map", err |-> err]
    /\ UNCHANGED << otherVars, ffi, handle, overflow_checks, userHandles, hooks, next_hook,
                    eng_open, eng_hooks, closeCalls, pc, cb, n_unmap, removedOk >>

\* mmio_unmap: every scope's unmap, then retain the scopes that have regions.
RECURSIVE MapScopes(_, _, _)
MapScopes(scopes, begin, size) ==
    IF scopes = << >>
    THEN << >>
    ELSE << ScopeUnmap(Head(scopes), begin, size) >> \o MapScopes(Tail(scopes), begin, size)

mmio_unmap(scopes, begin, size) ==
    SelectSeq(MapScopes(scopes, begin, size), has_regions)

\* The first scope whose unmap panics (0: none does).
PanicIndex(scopes, begin, size) ==
    IF \E i \in 1 .. Len(scopes) : ScopeUnmapPanics(scopes[i], begin, size)
    THEN CHOOSE i \in 1 .. Len(scopes) :
             /\ ScopeUnmapPanics(scopes[i], begin, size)
             /\ \A j \in 1 .. (i - 1) : ~ScopeUnmapPanics(scopes[j], begin, size)
    ELSE 0

\* The engine's pages after uc_mem_unmap(address, size) returned err.
EngineUnmap(address, size, err) ==
    IF err = "OK"
    THEN [p \in PageIdx |-> IF p \in PagesOf(address, size) THEN 0 ELSE eng_mem[p]]
    ELSE eng_mem

\* mem_unmap: the native unmap, then mmio_unmap whatever the native call
\* returned, then the native result.  A scope that is not retained drops its
\* boxes, each with its clone of the handle.
MemUnmap(address, size) ==
    /\ CanCall
    /\ address \in U64 /\ size \in U64
    /\ n_unmap < MaxUnmaps
    /\ n_unmap' = n_unmap + 1
    /\ LET err == uc_mem_unmap(address, size)
           k == PanicIndex(mmio_callbacks, address, size)
       IN
       /\ eng_mem' = EngineUnmap(address, size, err)
       /\ native_failed' = (native_failed \/ err # "OK")
       /\ IF k = 0
          THEN /\ mmio_callbacks' = mmio_unmap(mmio_callbacks, address, size)
               /\ rc' = rc - (SumBoxes(mmio_callbacks) - SumBoxes(mmio_callbacks'))
               /\ last' = [op |-> "mem_unmap", err |-> err]
               /\ UNCHANGED << pc, cb >>
          ELSE \* the scopes before the k-th are already updated; the program aborts
               /\ mmio_callbacks' = [i \in 1 .. Len(mmio_callbacks) |->
                                        IF i < k
                                        THEN ScopeUnmap(mmio_callbacks[i], address, size)
                                        ELSE mmio_callbacks[i]]
               /\ last' = [op |-> "mem_unmap", err |-> "panic"]
               /\ pc' = "aborted"
               /\ UNCHANGED << rc, cb >>
    /\ UNCHANGED << otherVars, ffi, handle, overflow_checks, userHandles, hooks, next_hook,
                    next_map, eng_open, eng_hooks, closeCalls, removedOk >>

\* --------------------------------------------------------- emulation
\* emu_start: blocks in uc_emu_start until the engine returns.
EmuStart ==
    /\ pc = "idle"
    /\ userHandles > 0
    /\ pc' = "running"
    /\ UNCHANGED << otherVars, ffi, handle, overflow_checks, rc, userHandles, hooks,
                    mmio_callbacks, next_hook, next_map, eng_open, eng_hooks,
                    eng_mem, closeCalls, cb, last, n_unmap, removedOk, native_failed >>

EmuResults == {"OK", "READ_UNMAPPED"}

EmuReturn(err) ==
    /\ pc = "running"
    /\ err \in EmuResults
    /\ pc' = "idle"
    /\ last' = [op |-> "emu_start", err |-> err]
    /\ UNCHANGED << otherVars, ffi, handle, overflow_checks, rc, userHandles, hooks,
                    mmio_callbacks, next_hook, next_map, eng_open, eng_hooks,
                    eng_mem, closeCalls, cb, n_unmap, removedOk, native_failed >>

\* The box of a registered hook is still owned by the hooks list.
HookBoxHeld(t) == \E i \in 1 .. Len(hooks) : hooks[i].user_data = t

\* The scope of an MMIO mapping is still owned by mmio_callbacks.
ScopeHeld(m) == \E i \in 1 .. Len(mmio_callbacks) : mmio_callbacks[i].id = m

\* The engine calls the trampoline of a registered hook; the callback runs
\* with a fresh clone of the handle.  When the box was freed the user data is
\* dangling: the callback may still run from the stale memory (this action)
\* or the program crashes (HookCrash).
HookEnter(t) ==
    /\ pc = "running"
    /\ t \in eng_hooks
    /\ pc' = "callback"
    /\ cb' = [kind |-> "hook", id |-> t]
    /\ rc' = rc + 1
    /\ UNCHANGED << otherVars, ffi, handle, overflow_checks, userHandles, hooks, mmio_callbacks,
                    next_hook, next_map, eng_open, eng_hooks, eng_mem, closeCalls,
                    last, n_unmap, removedOk, native_failed >>

HookCrash(t) ==
    /\ pc = "running"
    /\ t \in eng_hooks
    /\ ~HookBoxHeld(t)
    /\ pc' = "aborted"
    /\ UNCHANGED << otherVars, ffi, handle, overflow_checks, rc, userHandles, hooks,
                    mmio_callbacks, next_hook, next_map, eng_open, eng_hooks,
                    eng_mem, closeCalls, cb, last, n_unmap, removedOk, native_failed >>

\* The engine dispatches an access to a page backed by MMIO mapping m to the
\* mapping's callback.
MmioEnter(m) ==
    /\ pc = "running"
    /\ \E p \in PageIdx : eng_mem[p] = m
    /\ m # 0
    /\ pc' = "callback"
    /\ cb' = [kind |-> "mmio", id |-> m]
    /\ rc' = rc + 1
    /\ UNCHANGED << otherVars, ffi, handle, overflow_checks, userHandles, hooks, mmio_callbacks,
                    next_hook, next_map, eng_open, eng_hooks, eng_mem, closeCalls,
                    last, n_unmap, removedOk, native_failed >>

MmioCrash(m) ==
    /\ pc = "running"
    /\ \E p \in PageIdx : eng_mem[p] = m
    /\ m # 0
    /\ ~ScopeHeld(m)
    /\ pc' = "aborted"
    /\ UNCHANGED << otherVars, ffi, handle, overflow_checks, rc, userHandles, hooks,
                    mmio_callbacks, next_hook, next_map, eng_open, eng_hooks,
                    eng_mem, closeCalls, cb, last, n_unmap, removedOk, native_failed >>

\* The callback returns to the engine; its clone of the handle is dropped.
CallbackReturn ==
    /\ pc = "callback"
    /\ pc' = "running"
    /\ cb' = NoCallback
    /\ rc' = rc - 1
    /\ UNCHANGED << otherVars, ffi, handle, overflow_checks, userHandles, hooks, mmio_callbacks,
                    next_hook, next_map, eng_open, eng_hooks, eng_mem, closeCalls,
                    last, n_unmap, removedOk, native_failed >>

\* Page-aligned addresses and whole-page sizes.
PageAddrs == { a \in U64 : Aligned(a) }
PageSizes == { s \in U64 : s > 0 /\ Aligned(s) }

\* The whole instance: handles, hooks, emulation with its callbacks, and
\* MMIO mappings at the bottom of the address space, unmapped one or two
\* pages at a time.
Next ==
    \/ CloneHandle
    \/ DropHandle
    \/ \E err \in HookAddResults : AddHook(err)
    \/ \E hook \in Tokens, err \in HookDelResults : RemoveHook(hook, err)
    \/ \E size \in {PageSize, 2 * PageSize}, rd \in BOOLEAN, wr \in BOOLEAN :
           MmioMap(0, size, rd, wr)
    \/ \E address \in {0, PageSize}, size \in {PageSize, 2 * PageSize} :
           MemUnmap(address, size)
    \/ EmuStart
    \/ \E err \in EmuResults : EmuReturn(err)
    \/ \E t \in Tokens : HookEnter(t)
    \/ \E t \in Tokens : HookCrash(t)
    \/ \E m \in MapIds : MmioEnter(m)
    \/ \E m \in MapIds : MmioCrash(m)
    \/ CallbackReturn

Spec == Init /\ [][Next]_vars

\* The MMIO region tracker alone, on an instance made by new, with every
\* address and size as argument and both callbacks given.  Hooks, handles
\* and callbacks do not touch mmio_callbacks or the engine's pages, so they
\* are left out here.
InitMmio == Init /\ ~ffi

NextMmio ==
    \/ \E address \in U64, size \in U64 : MmioMap(address, size, TRUE, TRUE)
    \/ \E address \in U64, size \in U64 : MemUnmap(address, size)

SpecMmio == InitMmio /\ [][NextMmio]_vars

\* Hook registration alone, add_mem_hook with its hook types included.
NextHooks ==
    \/ \E err \in HookAddResults : AddHook(err)
    \/ \E hook_type \in HookTypeInputs, err \in HookAddResults : AddMemHook(hook_type, err)
    \/ \E hook \in Tokens, err \in HookDelResults : RemoveHook(hook, err)

SpecHooks == Init /\ [][NextHooks]_vars

\* ------------------------------------------------- handles and clones
\* A clone whose Rc points at another allocation.
clone_inner_other(p) == (p % MaxInners) + 1

\* #[derive(Clone)] on Unicorn, and Unicorn { inner: self.inner.clone() }:
\* the Rc of the clone points at the allocation of the original.
clone_inner(p) == p

\* The allocation behind a handle: one of the caller's (via in HandleIds) or
\* the one in the hook's box (via = 0), which the callback is given.
InnerOf(via) == IF via = 0 THEN box_inner ELSE uc_inner[via]

\* The handle exists.
Alive(via) == InnerOf(via) # 0

\* The handle can be used now: the caller's while no emu_start is in
\* progress, the box's by the callback during emu_start.
CanUse(via) ==
    /\ via \in 0 .. MaxHandles
    /\ Alive(via)
    /\ (via = 0) = (share_pc = "running")

\* inner_mut(): a write of one field of the allocation behind the handle.
WriteInner(via, field, value) ==
    /\ heap' = [heap EXCEPT ![InnerOf(via)][field] = value]
    /\ share_last' = [via |-> via, field |-> field, value |-> value]

\* inner(): a read of one field through a handle.
ReadInner(via, field) == heap[InnerOf(via)][field]

\* clone() of a handle the caller holds.
HandleClone(h, h2) ==
    /\ share_pc = "idle"
    /\ h \in HandleIds /\ h2 \in HandleIds
    /\ uc_inner[h] # 0
    /\ uc_inner[h2] = 0
    /\ uc_inner' = [uc_inner EXCEPT ![h2] = clone_inner(uc_inner[h])]
    /\ UNCHANGED << box_inner, heap, share_pc, share_last, instanceVars, abiVars, ctxVars >>

\* drop of a handle the caller holds, another one being kept.
HandleDrop(h) ==
    /\ share_pc = "idle"
    /\ h \in HandleIds
    /\ uc_inner[h] # 0
    /\ \E h2 \in HandleIds \ {h} : uc_inner[h2] # 0
    /\ uc_inner' = [uc_inner EXCEPT ![h] = 0]
    /\ UNCHANGED << box_inner, heap, share_pc, share_last, instanceVars, abiVars, ctxVars >>

\* set_crash_pc(pc)
SetCrashPc(via, value) ==
    /\ CanUse(via)
    /\ value \in Vals
    /\ WriteInner(via, "crash_pc", value)
    /\ UNCHANGED << uc_inner, box_inner, share_pc, instanceVars, abiVars, ctxVars >>

\* *get_data_mut() = value
SetData(via, value) ==
    /\ CanUse(via)
    /\ value \in Vals
    /\ WriteInner(via, "data", value)
    /\ UNCHANGED << uc_inner, box_inner, share_pc, instanceVars, abiVars, ctxVars >>

\* add_*_hook through a handle: the box gets a clone of that handle and the
\* entry is pushed on the hooks list behind it.
RegisterHook(via) ==
    /\ CanUse(via)
    /\ box_inner = 0
    /\ box_inner' = clone_inner(InnerOf(via))
    /\ WriteInner(via, "hooks", heap[InnerOf(via)].hooks + 1)
    /\ UNCHANGED << uc_inner, share_pc, instanceVars, abiVars, ctxVars >>

\* mmio_map through a handle: a scope is pushed on mmio_callbacks.
RegisterMmio(via) ==
    /\ CanUse(via)
    /\ heap[InnerOf(via)].scopes < MaxMaps
    /\ WriteInner(via, "scopes", heap[InnerOf(via)].scopes + 1)
    /\ UNCHANGED << uc_inner, box_inner, share_pc, instanceVars, abiVars, ctxVars >>

\* mem_unmap through a handle, over every mapping: the scopes are discarded.
UnmapAll(via) ==
    /\ CanUse(via)
    /\ heap[InnerOf(via)].scopes > 0
    /\ WriteInner(via, "scopes", 0)
    /\ UNCHANGED << uc_inner, box_inner, share_pc, instanceVars, abiVars, ctxVars >>

\* emu_start through a handle the caller holds, a hook being registered:
\* until it returns, the callback acts through the handle in its box.
EmuStartVia(h) ==
    /\ share_pc = "idle"
    /\ h \in HandleIds
    /\ uc_inner[h] # 0
    /\ box_inner # 0
    /\ share_pc' = "running"
    /\ UNCHANGED << uc_inner, box_inner, heap, share_last, instanceVars, abiVars, ctxVars >>

EmuReturnVia ==
    /\ share_pc = "running"
    /\ share_pc' = "idle"
    /\ UNCHANGED << uc_inner, box_inner, heap, share_last, instanceVars, abiVars, ctxVars >>

NextShare ==
    \/ \E h \in HandleIds, h2 \in HandleIds : HandleClone(h, h2)
    \/ \E h \in HandleIds : HandleDrop(h)
    \/ \E via \in 0 .. MaxHandles, value \in Vals : SetCrashPc(via, value)
    \/ \E via \in 0 .. MaxHandles, value \in Vals : SetData(via, value)
    \/ \E via \in 0 .. MaxHandles : RegisterHook(via)
    \/ \E via \in 0 .. MaxHandles : RegisterMmio(via)
    \/ \E via \in 0 .. MaxHandles : UnmapAll(via)
    \/ \E h \in HandleIds : EmuStartVia(h)
    \/ EmuReturnVia

SpecShare == Init /\ [][NextShare]_vars

\* ------------------------------------------------- architecture ABI
\* What a helper resolves to when it aborts: get_mode() on an instance that
\* kept no mode, unreachable!(), or unwrap() of an error.
Abort == Reg("", "PANIC")

\* x86 32-bit function arguments are on the stack, not in a register.
OnStack == Reg("X86", "STACK")

\* The register get_pc reads.
get_pc_reg(a, m) ==
    IF a = "X86"
    THEN IF m = "MODE_32" THEN Reg("X86", "EIP")
         ELSE IF m = "MODE_64" THEN Reg("X86", "RIP")
         ELSE Abort
    ELSE Reg(a, "PC")

\* A set_pc that writes the 32-bit register in 64-bit mode.
set_pc_reg_always_eip(a, m) ==
    IF a = "X86"
    THEN IF m \in {"MODE_32", "MODE_64"} THEN Reg("X86", "EIP") ELSE Abort
    ELSE Reg(a, "PC")

\* The register set_pc writes.
set_pc_reg(a, m) ==
    IF a = "X86"
    THEN IF m = "MODE_32" THEN Reg("X86", "EIP")
         ELSE IF m = "MODE_64" THEN Reg("X86", "RIP")
         ELSE Abort
    ELSE Reg(a, "PC")

\* Where function_arg0_val, function_arg1_val, function_arg2_val take the
\* value from.
function_arg_source(n, a, m) ==
    IF a = "X86"
    THEN IF m = "MODE_32" THEN OnStack
         ELSE IF m = "MODE_64" THEN Reg("X86", << "RDI", "RSI", "RDX" >>[n + 1])
         ELSE Abort
    ELSE IF n = 0
         THEN IF a = "ARM" THEN Reg("ARM", "R0")
              ELSE IF a = "ARM64" THEN Reg("ARM64", "X0")
              ELSE IF a = "MIPS" THEN Reg("MIPS", "A0")
              ELSE IF a = "SPARC" THEN Reg("SPARC", "O0")
              ELSE IF a = "PPC" THEN Reg("PPC", "R3")
              ELSE IF a = "RISCV" THEN Reg("RISCV", "A0")
              ELSE Abort
         ELSE Abort

\* The x86 rows of syscall_arg0_reg .. syscall_arg5_reg, by mode.
X86SyscallArgs32 == << "EBX", "ECX", "EDX", "ESI", "EDI" >>
X86SyscallArgs64 == << "RDI", "RSI", "RDX", "R10", "R8", "R9" >>

\* The rows of the other architectures.
SyscallArgs(a) ==
    IF a = "ARM" THEN << "R0", "R1", "R2", "R3", "R4", "R5" >>
    ELSE IF a = "ARM64" THEN << "X0", "X1", "X2", "X3", "X4", "X5" >>
    ELSE IF a = "MIPS" THEN << "A0", "A1", "A2", "A3" >>
    ELSE IF a = "SPARC" THEN << "O0", "O1", "O2", "O3", "O4", "O5" >>
    ELSE IF a = "PPC" THEN << "R3", "R4", "R5", "R6", "R7", "R8" >>
    ELSE IF a = "RISCV" THEN << "A0", "A1", "A2", "A3", "A4", "A5" >>
    ELSE << >>

\* The n-th name of a row, an architecture or index without one aborting.
RowReg(a, row, n) == IF n + 1 <= Len(row) THEN Reg(a, row[n + 1]) ELSE Abort

\* A syscall_argN_reg whose x86 64-bit row is the function-call one.
syscall_arg_reg_call_abi(n, a, m) ==
    IF a = "X86"
    THEN IF m = "MODE_32" THEN RowReg("X86", X86SyscallArgs32, n)
         ELSE IF m = "MODE_64"
              THEN RowReg("X86", << "RDI", "RSI", "RDX", "RCX", "R8", "R9" >>, n)
              ELSE Abort
    ELSE RowReg(a, SyscallArgs(a), n)

\* syscall_argN_reg, N = n.
syscall_arg_reg(n, a, m) ==
    IF a = "X86"
    THEN IF m = "MODE_32" THEN RowReg("X86", X86SyscallArgs32, n)
         ELSE IF m = "MODE_64" THEN RowReg("X86", X86SyscallArgs64, n)
         ELSE Abort
    ELSE RowReg(a, SyscallArgs(a), n)

syscall_return_reg(a, m) ==
    IF a = "X86"
    THEN IF m = "MODE_32" THEN Reg("X86", "EAX")
         ELSE IF m = "MODE_64" THEN Reg("X86", "RAX")
         ELSE Abort
    ELSE IF a = "ARM" THEN Reg("ARM", "R0")
    ELSE IF a = "ARM64" THEN Reg("ARM64", "X0")
    ELSE IF a = "MIPS" THEN Reg("MIPS", "V0")
    ELSE IF a = "SPARC" THEN Reg("SPARC", "O0")
    ELSE IF a = "PPC" THEN Reg("PPC", "R3")
    ELSE IF a = "RISCV" THEN Reg("RISCV", "A0")
    ELSE Abort

link_register(a) == IF a = "RISCV" THEN Reg("RISCV", "RA") ELSE Abort

\* uc_mem_read(address, .., size) succeeds.
MemReadable(address, size) ==
    /\ stack_readable
    /\ address + size <= Word64
    /\ stack.base <= address
    /\ address + size <= stack.base + Len(stack.bytes)

\* mem_read / mem_read_as_vec: the size bytes at address.
MemBytes(address, size) ==
    SubSeq(stack.bytes, address - stack.base + 1, address - stack.base + size)

\* from_le_bytes: the first byte is the least significant.
RECURSIVE from_le_bytes(_)
from_le_bytes(bs) ==
    IF bs = << >> THEN 0 ELSE Head(bs) + ByteBase * from_le_bytes(Tail(bs))

\* slice.try_into() to an array of n bytes succeeds.
TryIntoArray(slice, n) == Len(slice) = n

\* The bytes of the return address, decoded most significant first.
RECURSIVE ReturnAddressBigEndian(_)
ReturnAddressBigEndian(data) ==
    IF data = << >> THEN 0
    ELSE data[Len(data)] + ByteBase * ReturnAddressBigEndian(SubSeq(data, 1, Len(data) - 1))

\* The return address simulate_return and func_return_addr decode.
ReturnAddress(data) == from_le_bytes(data)

\* A helper that panicked ended the program.
Running == abi_last.res # "PANIC"

Returned(op, arg, value, reg) ==
    [op |-> op, arg |-> arg, res |-> "OK", value |-> value, reg |-> reg]

Panicked(op, arg) ==
    [op |-> op, arg |-> arg, res |-> "PANIC", value |-> 0, reg |-> Abort]

\* uc_reg_read of a register of the instance's architecture.
reg_read(regid) == regs[regid]

\* uc_reg_write: the register file after the write.
reg_write(file, regid, value) == [file EXCEPT ![regid] = value]

PcInputs == {1, Word32 + 1}

GetPc ==
    /\ Running
    /\ LET reg == get_pc_reg(arch, mode) IN
           abi_last' = IF reg = Abort
                       THEN Panicked("get_pc", 0)
                       ELSE Returned("get_pc", 0, reg_read(reg), reg)
    /\ UNCHANGED << instanceVars, shareVars, ctxVars, arch, mode, regs, stack, stack_readable >>

SetPc(value) ==
    /\ Running
    /\ LET reg == set_pc_reg(arch, mode) IN
           IF reg = Abort
           THEN /\ abi_last' = Panicked("set_pc", value)
                /\ UNCHANGED regs
           ELSE /\ regs' = reg_write(regs, reg, value)
                /\ abi_last' = Returned("set_pc", value, 0, reg)
    /\ UNCHANGED << instanceVars, shareVars, ctxVars, arch, mode, stack, stack_readable >>

\* function_arg0_val, function_arg1_val, function_arg2_val.
FunctionArgVal(n) ==
    /\ Running
    /\ LET src == function_arg_source(n, arch, mode)
           address == reg_read(Reg("X86", "ESP")) + 4 * (n + 1)
       IN  abi_last' =
               IF src = Abort
               THEN Panicked("function_arg_val", n)
               ELSE IF src = OnStack
                    THEN IF MemReadable(address, 4)
                              /\ TryIntoArray(SubSeq(MemBytes(address, 4), 1, 4), 4)
                         THEN Returned("function_arg_val", n,
                                       from_le_bytes(SubSeq(MemBytes(address, 4), 1, 4)), OnStack)
                         ELSE Panicked("function_arg_val", n)
                    ELSE Returned("function_arg_val", n, reg_read(src), src)
    /\ UNCHANGED << instanceVars, shareVars, ctxVars, arch, mode, regs, stack, stack_readable >>

\* syscall_arg0_reg .. syscall_arg5_reg.
SyscallArgReg(n) ==
    /\ Running
    /\ LET reg == syscall_arg_reg(n, arch, mode) IN
           abi_last' = IF reg = Abort
                       THEN Panicked("syscall_arg_reg", n)
                       ELSE Returned("syscall_arg_reg", n, 0, reg)
    /\ UNCHANGED << instanceVars, shareVars, ctxVars, arch, mode, regs, stack, stack_readable >>

SyscallReturnReg ==
    /\ Running
    /\ LET reg == syscall_return_reg(arch, mode) IN
           abi_last' = IF reg = Abort
                       THEN Panicked("syscall_return_reg", 0)
                       ELSE Returned("syscall_return_reg", 0, 0, reg)
    /\ UNCHANGED << instanceVars, shareVars, ctxVars, arch, mode, regs, stack, stack_readable >>

\* The x86 arm of simulate_return: width is 4 (ESP) or 8 (RSP).
SimulateReturnX86(sp_reg, width) ==
    LET sp_val == reg_read(sp_reg)
        advanced == reg_write(regs, sp_reg, (sp_val + width) % Word64)
        data == MemBytes(sp_val, width)
    IN  IF sp_val + width >= Word64 /\ overflow_checks
        THEN /\ abi_last' = Panicked("simulate_return", 0)
             /\ UNCHANGED regs
        ELSE IF MemReadable(sp_val, width)
                  /\ TryIntoArray(SubSeq(data, 1, width), width)
                  /\ set_pc_reg(arch, mode) # Abort
             THEN /\ regs' = reg_write(advanced, set_pc_reg(arch, mode),
                                       ReturnAddress(SubSeq(data, 1, width)))
                  /\ abi_last' = Returned("simulate_return", 0, 0, set_pc_reg(arch, mode))
             ELSE /\ regs' = advanced
                  /\ abi_last' = Panicked("simulate_return", 0)

SimulateReturn ==
    /\ Running
    /\ IF arch = "RISCV"
       THEN IF link_register(arch) # Abort /\ set_pc_reg(arch, mode) # Abort
            THEN /\ regs' = reg_write(regs, set_pc_reg(arch, mode),
                                      reg_read(link_register(arch)))
                 /\ abi_last' = Returned("simulate_return", 0, 0, set_pc_reg(arch, mode))
            ELSE /\ abi_last' = Panicked("simulate_return", 0)
                 /\ UNCHANGED regs
       ELSE IF arch = "X86" /\ mode = "MODE_32"
            THEN SimulateReturnX86(Reg("X86", "ESP"), 4)
            ELSE IF arch = "X86" /\ mode = "MODE_64"
                 THEN SimulateReturnX86(Reg("X86", "RSP"), 8)
                 ELSE /\ abi_last' = Panicked("simulate_return", 0)
                      /\ UNCHANGED regs
    /\ UNCHANGED << instanceVars, shareVars, ctxVars, arch, mode, stack, stack_readable >>

\* The x86 arm of func_return_addr: the slice data[0..slice] is converted to
\* the four bytes of a u32.
FuncReturnAddrX86(sp_reg, width, slice) ==
    LET sp_val == reg_read(sp_reg)
        data == MemBytes(sp_val, width)
    IN  IF MemReadable(sp_val, width) /\ TryIntoArray(SubSeq(data, 1, slice), 4)
        THEN Returned("func_return_addr", 0, ReturnAddress(SubSeq(data, 1, slice)), sp_reg)
        ELSE Panicked("func_return_addr", 0)

FuncReturnAddr ==
    /\ Running
    /\ abi_last' =
           IF arch = "RISCV"
           THEN IF link_register(arch) # Abort
                THEN Returned("func_return_addr", 0, reg_read(link_register(arch)),
                              link_register(arch))
                ELSE Panicked("func_return_addr", 0)
           ELSE IF arch = "X86" /\ mode = "MODE_32"
                THEN FuncReturnAddrX86(Reg("X86", "ESP"), 4, 4)
                ELSE IF arch = "X86" /\ mode = "MODE_64"
                     THEN FuncReturnAddrX86(Reg("X86", "RSP"), 8, 8)
                     ELSE Panicked("func_return_addr", 0)
    /\ UNCHANGED << instanceVars, shareVars, ctxVars, arch, mode, regs, stack, stack_readable >>

NextAbi ==
    \/ GetPc
    \/ \E value \in PcInputs : SetPc(value)
    \/ \E n \in 0 .. 2 : FunctionArgVal(n)
    \/ \E n \in 0 .. 5 : SyscallArgReg(n)
    \/ SyscallReturnReg
    \/ SimulateReturn
    \/ FuncReturnAddr

SpecAbi == InitAbi /\ [][NextAbi]_vars

\* ---------------------------------------------------------- contexts
\* Results the native uc_context_alloc and uc_context_save may report.
ContextResults == {"OK", "NOMEM"}

\* A Context whose drop skips the native free.
is_initialized_never(context) == FALSE

\* Context::is_initialized: the pointer is not null.
is_initialized(context) == context # 0

\* uc_context_free(context): one more free of the blob.
uc_context_free(table, context) ==
    [table EXCEPT ![context].frees = table[context].frees + 1]

\* context_alloc: uc_context_alloc, and on success a Context owning the blob.
ContextAlloc(err) ==
    /\ CanCall
    /\ err \in ContextResults
    /\ next_context <= MaxContexts
    /\ IF err = "OK"
       THEN /\ contexts' = [contexts EXCEPT ![next_context].made = "context_alloc"]
            /\ context_objs' = context_objs \cup {next_context}
            /\ next_context' = next_context + 1
       ELSE UNCHANGED << contexts, context_objs, next_context >>
    /\ ctx_last' = [op |-> "context_alloc", err |-> err]
    /\ UNCHANGED << instanceVars, shareVars, abiVars >>

\* context_init: uc_context_alloc, then uc_context_save; when the save fails
\* the blob is freed and the error returned.
ContextInit(alloc_err, save_err) ==
    /\ CanCall
    /\ alloc_err \in ContextResults /\ save_err \in ContextResults
    /\ next_context <= MaxContexts
    /\ IF alloc_err # "OK"
       THEN /\ ctx_last' = [op |-> "context_init", err |-> alloc_err]
            /\ UNCHANGED << contexts, context_objs, next_context >>
       ELSE /\ next_context' = next_context + 1
            /\ ctx_last' = [op |-> "context_init", err |-> save_err]
            /\ IF save_err = "OK"
               THEN /\ contexts' = [contexts EXCEPT ![next_context].made = "context_init"]
                    /\ context_objs' = context_objs \cup {next_context}
               ELSE /\ contexts' = uc_context_free(
                                       [contexts EXCEPT ![next_context].made = "save_failed"],
                                       next_context)
                    /\ UNCHANGED context_objs
    /\ UNCHANGED << instanceVars, shareVars, abiVars >>

\* Drop for Context: free the blob when the pointer is set.  The owner can
\* drop a Context at any time, also after the instance is gone.
ContextDrop(context) ==
    /\ context \in context_objs
    /\ context_objs' = context_objs \ {context}
    /\ contexts' = IF is_initialized(context)
                   THEN uc_context_free(contexts, context)
                   ELSE contexts
    /\ ctx_last' = [op |-> "drop", err |-> "OK"]
    /\ UNCHANGED << next_context, instanceVars, shareVars, abiVars >>

\* Contexts made and dropped while handles of the instance are cloned and
\* dropped.
NextCtx ==
    \/ CloneHandle
    \/ DropHandle
    \/ \E err \in ContextResults : ContextAlloc(err)
    \/ \E alloc_err \in ContextResults, save_err \in ContextResults :
           ContextInit(alloc_err, save_err)
    \/ \E context \in ContextIds : ContextDrop(context)

SpecCtx == Init /\ [][NextCtx]_vars

\* Model sanity: the strong count is the caller's handles, the boxes the
\* instance owns, and the clone of the running callback.
RcAccounting ==
    rc = userHandles + Len(hooks) + SumBoxes(mmio_callbacks)
            + (IF cb # NoCallback THEN 1 ELSE 0)

\* ------------------------------------------------------------ claims

\* C1: uc_close is called exactly once, at the moment the last shared
\* reference to an instance created by new/new_with_data (ffi = FALSE) is
\* dropped, never while a reference remains and never a second time; for an
\* instance adopted through try_from (ffi = TRUE) it is never called.
C1_CloseOnceAtLastReference ==
    /\ closeCalls = (IF ~ffi /\ rc = 0 THEN 1 ELSE 0)
    /\ eng_open = (closeCalls = 0)

\* C1, the case: an owned instance that had a hook and an MMIO mapping
\* registered, and whose last reference is gone.
C1_Witness ==
    /\ ~ffi
    /\ rc = 0
    /\ next_hook > 1
    /\ next_map > 1
    /\ closeCalls = 1

\* C2: once the caller has dropped every handle it holds on an owned
\* instance, the native engine resource has been released, whatever hooks or
\* MMIO callbacks were registered and not removed.  (Dropping a handle is
\* synchronous and nothing runs without a handle, so "eventually" is "in the
\* state the last drop leaves".)
C2_ReleasedOnceHandlesDropped ==
    (~ffi /\ userHandles = 0) => closeCalls = 1

\* C3: every hook token still registered in the native engine has its boxed
\* callback held in the hooks list, whatever uc_hook_del returned.
C3_RegisteredHookKeepsItsBox ==
    \A t \in eng_hooks : HookBoxHeld(t)

\* C4: after remove_hook(token) returned success, the callback registered
\* under that token is not entered again, in this or any later emu_start.
C4_NoInvocationAfterRemove ==
    [][\A t \in removedOk :
           ~(cb' = [kind |-> "hook", id |-> t] /\ cb # [kind |-> "hook", id |-> t])]_vars

\* C4, the case: a token was removed with success and the engine is running
\* emulated code, with another hook still registered.
C4_Witness ==
    /\ removedOk # {}
    /\ pc = "running"
    /\ eng_hooks # {}

\* ------------------------------------------------- MMIO claim vocabulary
\* Addresses of the sub-intervals of a regions list: (b, s) is the s bytes
\* that start at b.
Cov(regions) ==
    { a \in U64 : \E i \in 1 .. Len(regions) :
                      (a - regions[i][1]) % AddrSpace < regions[i][2] }

\* The regions list of the scope pushed by the m-th mmio_map in a list of
\* scopes (empty when the scope is not in the list).
RegionsOf(scopes, m) ==
    IF \E i \in 1 .. Len(scopes) : scopes[i].id = m
    THEN scopes[CHOOSE i \in 1 .. Len(scopes) : scopes[i].id = m].regions
    ELSE << >>

\* Addresses for which the engine, its pages being mem, dispatches the
\* callbacks of mapping m.
EngineDispatch(mem, m) == { a \in U64 : mem[a \div PageSize] = m }

\* Every address the engine dispatches to a scope is recorded in that scope.
DispatchInsideRegions(mem, scopes) ==
    \A m \in MapIds : EngineDispatch(mem, m) \subseteq Cov(RegionsOf(scopes, m))

\* The window [address, address + size) of a mem_unmap that does not wrap.
Window(address, size) == { a \in U64 : address <= a /\ a < address + size }

\* No sub-interval of a list of scopes ends beyond the address space.
NoRegionOverflows(scopes) ==
    \A i \in 1 .. Len(scopes) : \A j \in 1 .. Len(scopes[i].regions) :
        ~Overflows(scopes[i].regions[j][1], scopes[i].regions[j][2])

\* The step is mem_unmap(address, size) and it returned (no panic).
MemUnmapReturned(address, size) ==
    /\ n_unmap' # n_unmap
    /\ MemUnmap(address, size)
    /\ pc' # "aborted"

\* The step is a mem_unmap of a non-empty page-aligned window below the top
\* of the address space, over sub-intervals that do not reach the top either,
\* and the native call succeeded.
AlignedUnmapSucceeded(address, size) ==
    /\ MemUnmapReturned(address, size)
    /\ Aligned(address) /\ Aligned(size) /\ size > 0
    /\ ~Overflows(address, size)
    /\ NoRegionOverflows(mmio_callbacks)
    /\ last'.err = "OK"

\* C5: after successful mmio_map and mem_unmap calls only, every address for
\* which the engine still dispatches a scope's callbacks lies inside one of
\* the sub-intervals of that scope's regions list.  Stated on the step: a
\* successful page-aligned mem_unmap taken where it holds leaves it holding.
C5_DispatchInsideRegions ==
    [][\A address \in PageAddrs, size \in PageSizes :
           (/\ AlignedUnmapSucceeded(address, size)
            /\ ~native_failed'
            /\ DispatchInsideRegions(eng_mem, mmio_callbacks))
               => DispatchInsideRegions(eng_mem', mmio_callbacks')]_vars

\* C6: a successful mem_unmap of a page-aligned window [lo, hi) leaves every
\* scope with exactly its former coverage minus [lo, hi).
C6_CoverageMinusWindow ==
    [][\A address \in PageAddrs, size \in PageSizes :
           AlignedUnmapSucceeded(address, size)
               => \A m \in MapIds :
                      Cov(RegionsOf(mmio_callbacks', m))
                          = Cov(RegionsOf(mmio_callbacks, m)) \ Window(address, size)]_vars

\* C7: for every sub-interval [b, b+s) of a scope and every window [lo, hi),
\* the sub-intervals MmioCallbackScope::unmap returns, together with
\* [lo, hi), cover all of [b, b+s).  Stated for the page-aligned windows of
\* mem_unmap calls that succeed.
C7_SplitCovers ==
    [][\A address \in PageAddrs, size \in PageSizes :
           AlignedUnmapSucceeded(address, size)
               => \A i \in 1 .. Len(mmio_callbacks) :
                      \A j \in 1 .. Len(mmio_callbacks[i].regions) :
                          LET r == mmio_callbacks[i].regions[j] IN
                          Cov(<< r >>) \subseteq
                              (Window(address, size)
                                   \cup Cov(UnmapRegion(r[1], r[2], address,
                                                        address + size)))]_vars

\* C8, the table of the claim, on intervals <<x, y>> standing for [x, y): what
\* the sub-interval [b, e) becomes under the window [lo, hi).
C8_Outcome(b, e, lo, hi) ==
    IF lo > b
    THEN IF lo >= e THEN << <<b, e>> >>
         ELSE IF hi >= e THEN << <<b, lo>> >>
              ELSE << <<b, lo>>, <<hi + 1, e>> >>
    ELSE IF hi > b
         THEN IF hi >= e THEN << >> ELSE << <<hi, e>> >>
         ELSE << <<b, e>> >>

\* A regions list as intervals: (b, s) is [b, b + s), the sum being u64's.
AsIntervals(regions) ==
    [j \in 1 .. Len(regions) |-> << regions[j][1], WrapAdd(regions[j][1], regions[j][2]) >>]

\* The outcomes of the table for a list of intervals, concatenated in order.
RECURSIVE C8_Concat(_, _, _)
C8_Concat(intervals, lo, hi) ==
    IF intervals = << >>
    THEN << >>
    ELSE C8_Outcome(Head(intervals)[1], Head(intervals)[2], lo, hi)
             \o C8_Concat(Tail(intervals), lo, hi)

\* C8: a mem_unmap that returns leaves every scope with the concatenation, in
\* the original order, of the table's outcome for each of its sub-intervals
\* [b, e), e = b + s, under the window [lo, hi), hi = lo + size (u64 sums):
\* lo > b: unchanged when lo >= e, [b, lo) when hi >= e, else [b, lo) and
\* [hi+1, e); lo <= b and hi > b: nothing when hi >= e, else [hi, e);
\* hi <= b: unchanged.
C8_UnmapTable ==
    [][\A address \in U64, size \in U64 :
           MemUnmapReturned(address, size)
               => \A i \in 1 .. Len(mmio_callbacks) :
                      AsIntervals(RegionsOf(mmio_callbacks', mmio_callbacks[i].id))
                          = C8_Concat(AsIntervals(mmio_callbacks[i].regions),
                                      address, WrapAdd(address, size))]_vars

\* C8, the case: a mem_unmap returned and left a scope split in two, the
\* second sub-interval beginning one byte past the window's end.
C8_Witness ==
    /\ last.op = "mem_unmap"
    /\ last.err = "OK"
    /\ \E i \in 1 .. Len(mmio_callbacks) :
           /\ Len(mmio_callbacks[i].regions) = 2
           /\ mmio_callbacks[i].regions[2][1] % PageSize = 1
           /\ mmio_callbacks[i].regions[2][2] > 0

\* C9: after a mem_unmap no scope with an empty regions list is in
\* mmio_callbacks, no scope that still covers an address outside the window
\* is removed, and a scope whose every sub-interval lies inside the window
\* is removed.
C9_DiscardedExactlyWhenEmpty ==
    [][\A address \in PageAddrs, size \in PageSizes :
           AlignedUnmapSucceeded(address, size)
               => /\ \A i \in 1 .. Len(mmio_callbacks') : has_regions(mmio_callbacks'[i])
                  /\ \A i \in 1 .. Len(mmio_callbacks) :
                         LET scope == mmio_callbacks[i]
                             removed == \A k \in 1 .. Len(mmio_callbacks') :
                                            mmio_callbacks'[k].id # scope.id
                             inside == \A j \in 1 .. Len(scope.regions) :
                                           /\ address <= scope.regions[j][1]
                                           /\ scope.regions[j][1] + scope.regions[j][2]
                                                  <= address + size
                         IN /\ removed => Cov(scope.regions) \subseteq Window(address, size)
                            /\ inside => removed]_vars

\* The sub-intervals of each scope's regions list are pairwise disjoint.
PairwiseDisjoint(scopes) ==
    \A i \in 1 .. Len(scopes) :
        \A j \in 1 .. Len(scopes[i].regions) :
            \A k \in (j + 1) .. Len(scopes[i].regions) :
                Cov(<< scopes[i].regions[j] >>) \cap Cov(<< scopes[i].regions[k] >>) = {}

\* C10: after any sequence of mmio_map and mem_unmap calls the sub-intervals
\* of each scope's regions list are pairwise disjoint.  Stated on the step: a
\* mem_unmap with a page-aligned address and size, taken where they are
\* disjoint, leaves them disjoint.
C10_RegionsPairwiseDisjoint ==
    [][\A address \in PageAddrs, size \in PageSizes :
           (MemUnmapReturned(address, size) /\ PairwiseDisjoint(mmio_callbacks))
               => PairwiseDisjoint(mmio_callbacks')]_vars

\* C11: mmio_map(address, size, ..): when the native mapping succeeds exactly
\* one scope is appended, its regions list being the single sub-interval
\* (address, size), and the scopes already there are unchanged; when the
\* native mapping fails the error is returned and mmio_callbacks is
\* unchanged.
C11_MmioMapFrame ==
    [][\A address \in U64, size \in U64 :
           (next_map' # next_map \/ last'.op = "mmio_map") /\ MmioMap(address, size, TRUE, TRUE)
               => IF uc_mmio_map(address, size) = "OK"
                  THEN /\ last'.err = "OK"
                       /\ Len(mmio_callbacks') = Len(mmio_callbacks) + 1
                       /\ SubSeq(mmio_callbacks', 1, Len(mmio_callbacks)) = mmio_callbacks
                       /\ mmio_callbacks'[Len(mmio_callbacks')].regions
                              = << <<address, size>> >>
                  ELSE /\ last'.err = uc_mmio_map(address, size)
                       /\ last'.err # "OK"
                       /\ mmio_callbacks' = mmio_callbacks]_vars

\* C11, the case: a second mmio_map succeeded next to a scope that an
\* earlier mem_unmap had split.
C11_Witness ==
    /\ last = [op |-> "mmio_map", err |-> "OK"]
    /\ Len(mmio_callbacks) = 2
    /\ Len(mmio_callbacks[1].regions) = 2
    /\ Len(mmio_callbacks[2].regions) = 1

\* Tokens of the entries of a hooks list.
HookTokens(hs) == { hs[i].hook_ptr : i \in 1 .. Len(hs) }

\* C12: a successful add_*_hook appends exactly one (token, box) entry, with
\* the token it returns, a token no other entry has; a failed add appends
\* nothing; remove_hook(token) takes away the entries of that token only,
\* in particular nothing when the token is unknown or already removed.  So
\* the tokens in the hooks list are those returned by successful adds and
\* not yet passed to remove_hook.
C12_HooksListTokens ==
    [][/\ \A err \in HookAddResults :
              (last'.op = "add_hook" /\ AddHook(err))
                  => IF err = "OK"
                     THEN /\ Len(hooks') = Len(hooks) + 1
                          /\ SubSeq(hooks', 1, Len(hooks)) = hooks
                          /\ hooks'[Len(hooks')].hook_ptr = next_hook
                          /\ next_hook \notin HookTokens(hooks)
                          /\ next_hook' > next_hook
                     ELSE hooks' = hooks
       /\ \A hook \in Tokens, err \in HookDelResults :
              (last'.op = "remove_hook" /\ RemoveHook(hook, err))
                  => /\ HookTokens(hooks') = HookTokens(hooks) \ {hook}
                     /\ Len(hooks') = Cardinality(HookTokens(hooks'))
                     /\ \A i \in 1 .. Len(hooks) :
                            hooks[i].hook_ptr # hook
                                => \E k \in 1 .. Len(hooks') : hooks'[k] = hooks[i]
                     /\ hook \notin HookTokens(hooks) => hooks' = hooks]_vars

\* C12, the case: two adds succeeded, remove_hook was called, and the other
\* registration is still in the list after a remove_hook of a token that is
\* not in it.
C12_Witness ==
    /\ last.op = "remove_hook"
    /\ next_hook = 3
    /\ HookTokens(hooks) = {2}
    /\ 1 \in removedOk
    /\ 1 \notin eng_hooks

\* C13: add_mem_hook refuses every hook type that has a flag outside
\* MEM_ALL | MEM_READ_AFTER with ARG, without calling uc_hook_add and with
\* the hooks list unchanged; a hook type within the union is passed to the
\* engine, whose result decides.
C13_AddMemHookTypeCheck ==
    [][\A hook_type \in HookTypeInputs, err \in HookAddResults :
           (last'.op = "add_mem_hook" /\ AddMemHook(hook_type, err))
               => IF hook_type \ (MEM_ALL \cup MEM_READ_AFTER) # {}
                  THEN /\ last'.err = "ARG"
                       /\ ~last'.native
                       /\ hooks' = hooks
                       /\ eng_hooks' = eng_hooks
                  ELSE /\ last'.native
                       /\ last'.err = err
                       /\ (err = "OK") = (Len(hooks') = Len(hooks) + 1)]_vars

\* C13, the case: with a hook registered, an add_mem_hook was refused
\* without a native call.
C13_Witness ==
    /\ last.op = "add_mem_hook"
    /\ last.err = "ARG"
    /\ ~last.native
    /\ Len(hooks) = 1

\* C14: all clones of a handle refer to one shared state.  Every handle that
\* exists, the one in a hook's box included, points at the same allocation
\* (no operation copies the state), and the last write, made through
\* whichever handle, is what a read of that field returns through every
\* handle.
C14_ClonesShareState ==
    \A via \in 0 .. MaxHandles :
        Alive(via)
            => /\ \A other \in 0 .. MaxHandles :
                      Alive(other) => InnerOf(other) = InnerOf(via)
               /\ ReadInner(via, share_last.field) = share_last.value

\* C14, the case: the callback wrote crash_pc through the handle in its box
\* during emu_start, emu_start has returned, and the caller holds two
\* handles, with a hook and an MMIO scope registered.
C14_Witness ==
    /\ share_pc = "idle"
    /\ share_last.via = 0
    /\ share_last.field = "crash_pc"
    /\ share_last.value # 0
    /\ \A h \in HandleIds : uc_inner[h] # 0
    /\ ReadInner(1, "scopes") > 0

\* The architectures and modes whose program counter get_pc and set_pc name.
PcSupported == arch # "X86" \/ mode \in {"MODE_32", "MODE_64"}

\* C15: on every supported architecture (x86 in 32-bit or 64-bit mode and the
\* nine others) set_pc and get_pc return and resolve to the same register, and
\* a get_pc that directly follows set_pc(v) returns v.
C15_PcRoundTrip ==
    [][PcSupported =>
           /\ abi_last'.op = "set_pc" =>
                  /\ abi_last'.res = "OK"
                  /\ abi_last'.reg = get_pc_reg(arch, mode)
           /\ (abi_last.op = "set_pc" /\ abi_last'.op = "get_pc") =>
                  /\ abi_last'.res = "OK"
                  /\ abi_last'.value = abi_last.arg]_vars

\* get_pc on a 64-bit x86 instance has returned the value set_pc wrote.
C15_Witness ==
    /\ arch = "X86"
    /\ mode = "MODE_64"
    /\ abi_last.op = "get_pc"
    /\ abi_last.res = "OK"
    /\ abi_last.value = Word32 + 1

\* The architectures and modes whose function arguments are in registers.
ArgInRegisters ==
    \/ arch = "X86" /\ mode = "MODE_64"
    \/ arch \in {"ARM", "ARM64", "MIPS", "SPARC", "PPC", "RISCV"}

\* The n-th integer argument register of the calling convention.
IntegerArgReg(a, n) ==
    IF a = "X86" THEN Reg(a, << "RDI", "RSI", "RDX" >>[n + 1])
    ELSE IF a = "ARM" THEN Reg(a, << "R0", "R1", "R2" >>[n + 1])
    ELSE IF a = "ARM64" THEN Reg(a, << "X0", "X1", "X2" >>[n + 1])
    ELSE IF a = "SPARC" THEN Reg(a, << "O0", "O1", "O2" >>[n + 1])
    ELSE IF a = "PPC" THEN Reg(a, << "R3", "R4", "R5" >>[n + 1])
    ELSE Reg(a, << "A0", "A1", "A2" >>[n + 1])

\* C16: on x86 in 64-bit mode and on ARM, ARM64, MIPS, SPARC, PPC and RISC-V,
\* function_argN_val (N = 0, 1, 2) returns the value of the architecture's
\* N-th integer argument register.
C16_FunctionArgIsArgumentRegister ==
    [][(ArgInRegisters /\ abi_last'.op = "function_arg_val") =>
           /\ abi_last'.res = "OK"
           /\ abi_last'.value = regs[IntegerArgReg(arch, abi_last'.arg)]]_vars

\* The architectures and modes with a syscall convention.
SyscallSupported ==
    \/ arch = "X86" /\ mode \in {"MODE_32", "MODE_64"}
    \/ arch \in {"ARM", "ARM64", "MIPS", "SPARC", "PPC", "RISCV"}

\* C17: on every architecture and mode with a syscall convention,
\* syscall_argN_reg for N = 0 .. 5 and syscall_return_reg return a register
\* of that architecture; none of them aborts.
C17_SyscallRegistersResolve ==
    [][(SyscallSupported
            /\ abi_last'.op \in {"syscall_arg_reg", "syscall_return_reg"}) =>
           /\ abi_last'.res = "OK"
           /\ abi_last'.reg[1] = arch]_vars

\* C18: on x86, syscall_arg3_reg returns R10 in 64-bit mode, which is not
\* RCX, and ESI in 32-bit mode.
C18_SyscallArg3OnX86 ==
    (arch = "X86" /\ abi_last.op = "syscall_arg_reg" /\ abi_last.arg = 3) =>
        /\ mode = "MODE_64" =>
               /\ abi_last.res = "OK"
               /\ abi_last.reg = Reg("X86", "R10")
               /\ abi_last.reg # Reg("X86", "RCX")
        /\ mode = "MODE_32" =>
               /\ abi_last.res = "OK"
               /\ abi_last.reg = Reg("X86", "ESI")

\* syscall_arg3_reg has returned on a 64-bit x86 instance.
C18_Witness ==
    /\ arch = "X86"
    /\ mode = "MODE_64"
    /\ abi_last.op = "syscall_arg_reg"
    /\ abi_last.arg = 3
    /\ abi_last.res = "OK"

\* The stack pointer register and the word size of the x86 mode.
StackPointerReg == IF mode = "MODE_64" THEN Reg("X86", "RSP") ELSE Reg("X86", "ESP")
WordBytes == IF mode = "MODE_64" THEN 8 ELSE 4

X86WithStack == arch = "X86" /\ mode \in {"MODE_32", "MODE_64"}

\* The little-endian word at the top of the stack.
TopOfStackWord == from_le_bytes(MemBytes(regs[StackPointerReg], WordBytes))

\* C19: on x86 with a readable stack, func_return_addr returns the
\* little-endian word at the stack pointer (4 bytes at ESP in 32-bit mode,
\* 8 bytes at RSP in 64-bit mode), the value simulate_return would write to
\* the program counter, and changes no register.
C19_FuncReturnAddrOnX86 ==
    [][(X86WithStack
            /\ MemReadable(regs[StackPointerReg], WordBytes)
            /\ abi_last'.op = "func_return_addr") =>
           /\ abi_last'.res = "OK"
           /\ abi_last'.value = TopOfStackWord
           /\ regs' = regs]_vars

\* D<<24 | C<<16 | B<<8 | A of the four bytes [A, B, C, D] at address.
Word32At(address) ==
    LET b == MemBytes(address, 4) IN
        b[1] + ByteBase * b[2] + ByteBase * ByteBase * b[3]
             + ByteBase * ByteBase * ByteBase * b[4]

\* The register file the return leaves on x86: the stack pointer advanced by
\* the word size, the program counter holding the popped word.
X86AfterReturn ==
    IF mode = "MODE_32"
    THEN [regs EXCEPT ![Reg("X86", "ESP")] = regs[Reg("X86", "ESP")] + 4,
                      ![Reg("X86", "EIP")] = Word32At(regs[Reg("X86", "ESP")])]
    ELSE [regs EXCEPT ![Reg("X86", "RSP")] = regs[Reg("X86", "RSP")] + 8,
                      ![Reg("X86", "RIP")] = TopOfStackWord]

ReadsStack(call) ==
    \/ call.op = "function_arg_val" /\ mode = "MODE_32"
    \/ call.op \in {"func_return_addr", "simulate_return"}

\* C21: when the engine reports an error for the stack access made inside
\* function_argN_val (x86 32-bit), func_return_addr or simulate_return, the
\* helper returns instead of aborting.
C21_HelpersReturnEngineErrors ==
    [][(X86WithStack /\ ~stack_readable /\ ReadsStack(abi_last')) =>
           abi_last'.res # "PANIC"]_vars

\* The box of the callback that is executing is owned by the instance.
RunningBoxHeld ==
    /\ cb.kind = "hook" => HookBoxHeld(cb.id)
    /\ cb.kind = "mmio" => ScopeHeld(cb.id)

\* C22: while a hook or MMIO callback is executing, a call made through its
\* handle clone (remove_hook on its own token, mem_unmap on the range of its
\* own scope) does not release the box of that callback.
C22_RunningCallbackKeepsItsBox ==
    [][(pc = "callback" /\ pc' = "callback" /\ RunningBoxHeld) => RunningBoxHeld']_vars

\* C23: when the native unmap reports an error, mem_unmap returns that error
\* and leaves the scopes and their sub-intervals unchanged.
C23_FailedUnmapChangesNoScope ==
    [][\A address \in U64, size \in U64 :
           (/\ n_unmap' # n_unmap
            /\ MemUnmap(address, size)
            /\ uc_mem_unmap(address, size) # "OK")
               => /\ last'.err = uc_mem_unmap(address, size)
                  /\ mmio_callbacks' = mmio_callbacks]_vars

\* Every sub-interval stored in a list of scopes has a size greater than zero.
NoEmptyRegion(scopes) ==
    \A i \in 1 .. Len(scopes) : \A j \in 1 .. Len(scopes[i].regions) :
        scopes[i].regions[j][2] > 0

\* C24: after any mmio_map and mem_unmap calls, with any arguments and
\* whatever the native call returned, every stored sub-interval has a size
\* greater than zero and lies inside the interval its scope was mapped with;
\* a scope's coverage never grows.  Stated on the step: a scope starts with
\* its mapped interval as coverage, so it stays inside it when no call that
\* returns adds an address to the coverage of a scope already mapped.
C24_RegionsShrinkAndAreNonEmpty ==
    [][pc' # "aborted" =>
           /\ NoEmptyRegion(mmio_callbacks')
           /\ \A m \in MapIds :
                  m < next_map =>
                      Cov(RegionsOf(mmio_callbacks', m)) \subseteq Cov(RegionsOf(mmio_callbacks, m))]_vars

\* C25: every native context allocated by context_alloc or context_init is
\* freed exactly once: a context whose save failed in context_init is freed
\* there and owned by no Context object; any other is owned by one Context
\* object and not freed until that object is dropped, then freed once,
\* whether or not the instance still exists.
C25_ContextFreedExactlyOnce ==
    \A c \in ContextIds :
        /\ contexts[c].made = "no" => (contexts[c].frees = 0 /\ c \notin context_objs)
        /\ contexts[c].made = "save_failed" => (contexts[c].frees = 1 /\ c \notin context_objs)
        /\ contexts[c].made \in {"context_alloc", "context_init"} =>
               contexts[c].frees = (IF c \in context_objs THEN 0 ELSE 1)

\* A context was freed by a failed context_init, and another by the drop of
\* its Context object after the instance had been closed.
C25_Witness ==
    /\ ~eng_open
    /\ userHandles = 0
    /\ ctx_last.op = "drop"
    /\ \E c \in ContextIds : contexts[c].made = "save_failed" /\ contexts[c].frees = 1
    /\ \E c \in ContextIds :
           /\ contexts[c].made \in {"context_alloc", "context_init"}
           /\ contexts[c].frees = 1

====
